---- MODULE Spec2Model ----
(***************************************************************************)
(* A model of cmlibs.exporter.flatmapsvg: the flatmap SVG exporter.        *)
(*                                                                         *)
(* The exporter is a single-threaded pipeline.  Each component of it is    *)
(* modelled by its own group of variables and its own specification:       *)
(*                                                                         *)
(*   SpecStitch   _connected_segments and UnionFind (path stitching)       *)
(*   SpecView     lines 96-111: the bounding box and the viewBox            *)
(*   SpecBezier   _calculate_bezier_control_points on any sampler output    *)
(*   SpecSample   _analyze_elements on any small region                     *)
(*   Spec         export_flatmapsvg_from_scene from line 92 to line 160     *)
(*   SpecAnnot    the same call on a plain region and any annotation file   *)
(*                                                                         *)
(* and of cmlibs.exporter.webgl:                                           *)
(*                                                                         *)
(*   SpecWebGL    export_webgl_from_scene, lines 151-221: the files         *)
(*                                                                         *)
(* A specification leaves the variables of the other components at their   *)
(* idle values.                                                            *)
(*                                                                         *)
(* Sequences are 1-based here where Python's lists are 0-based: segment    *)
(* index i of the model is index i - 1 of the code.                        *)
(***************************************************************************)
EXTENDS Integers, Sequences, FiniteSets, TLC

VARIABLES
    \* ---- _connected_segments -------------------------------------------
    curve,        \* the argument: a sequence of segments <<b0, b1, b2, b3>>
    begin_hash,   \* dict: start key -> segment index
    parent,       \* UnionFind.parent
    sets,         \* dict root -> members, as a sequence of <<root, members>>
                  \* in insertion order (Python dicts iterate in that order)
    segments,     \* the result: a sequence of paths
    seg,          \* the path being built
    key,          \* the walk's current key
    s,            \* the walk's current segment index
    index,        \* the running index of the function's loops
    diag,         \* what the function has printed
    pc,           \* the function's position
    \* ---- export_flatmapsvg_from_scene, lines 96-111: the viewport ------
    paths_left,   \* how many of svg2paths' paths the loop has yet to visit
    bbox,         \* [min x, max x, min y, max y] over the paths visited
    view_box,     \* the four numbers written into viewBox="..."
    vpc,          \* position within lines 96-111
    \* ---- _calculate_bezier_control_points ------------------------------
    \* ---- export_flatmapsvg_from_scene ----------------------------------
    group_list,   \* get_group_list(fm): the names of the region's groups
    mesh,         \* the elements of the 3D mesh, in iteration order
    path_points,  \* line 92: the sampler's dict, as a sequence of
                  \* <<key, value>> in insertion order
    bezier,       \* line 93: a dict group -> list of segments
    error,        \* the exception that ended the call, "" when none did
    xpc,          \* the line the call has reached
    marker_region, \* what line 94 has read of the region: the datapoints of
                  \* the marker group and whether marker_data_name and
                  \* marker_data_id are fields of it; None before line 94
    markers,      \* line 94: a list of (svg id, values[:2], name, onto_id)
    svg,          \* line 95: the children of the <svg> root, in order
    printed,      \* what _write_into_svg_format has printed
    annotations_csv_file,  \* self._annotations_csv_file: None, or the rows
                  \* csv.reader reads from the file of that name
    reversed_map, \* lines 115-124: None or a dict name -> identifier
    features,     \* lines 126-152: a dict svg id -> Feature
    \* ---- webgl.export_webgl_from_scene ---------------------------------
    number,       \* line 151: sceneSR.getNumberOfResourcesRequired()
    outcomes,     \* what getBuffer() gives for each resource
    tessellation_level,  \* self.tessellation_level: None or Some(level)
    resource_i,   \* i, the index of the loop of line 171
    resource_count,      \* line 170
    metadata,     \* None, or Some(the file name the written metadata holds
                  \* for each resource 1..number-1)
    written_files, \* the files written, in order: <<file name, resource>>
    wpc           \* position within lines 151-221

stitchVars == <<curve, begin_hash, parent, sets, segments, seg, key, s, index, diag, pc>>

viewVars == <<paths_left, bbox, view_box, vpc>>

outVars == <<marker_region, markers, svg, printed, annotations_csv_file, reversed_map, features>>

exportVars == <<group_list, mesh, path_points, bezier, error, xpc, outVars>>

webVars == <<number, outcomes, tessellation_level, resource_i, resource_count, metadata, written_files, wpc>>

vars == <<stitchVars, viewVars, exportVars, webVars>>

(***************************************************************************)
(* Numbers.  A coordinate is a fixed-point number: the integer n stands    *)
(* for n / (SubTol * 1e12), so that pt * tolerance of _create_key is       *)
(* n / SubTol and SubTol adjacent values fall within one tolerance cell.   *)
(***************************************************************************)
SubTol == 2

\* Python's int(x) of the quotient n / d, d > 0: truncation toward zero.
TruncDiv(n, d) == IF n >= 0 THEN n \div d ELSE -((-n) \div d)

Range(q) == {q[i] : i \in DOMAIN q}

(***************************************************************************)
(* _create_key                                                             *)
(***************************************************************************)
_create_key(pt) == <<TruncDiv(pt[1], SubTol), TruncDiv(pt[2], SubTol)>>

(***************************************************************************)
(* UnionFind.  parent[i] = NoParent marks a root.                          *)
(***************************************************************************)
NoParent == -1

UnionFindInit(v) == [i \in 1..v |-> NoParent]

RECURSIVE FindRoot(_, _)
\* the value find(i) returns
FindRoot(par, i) == IF par[i] = NoParent THEN i ELSE FindRoot(par, par[i])

RECURSIVE FindParent(_, _)
\* self.parent after find(i): every node on the way to the root points to it
FindParent(par, i) ==
    IF par[i] = NoParent THEN par
    ELSE LET below == FindParent(par, par[i])
         IN  [below EXCEPT ![i] = FindRoot(par, par[i])]

\* union(i, j) rooting j's tree into i's tree
UnionFindUnionInto(par, i, j) ==
    LET par1   == FindParent(par, i)
        root_i == FindRoot(par, i)
        par2   == FindParent(par1, j)
        root_j == FindRoot(par1, j)
    IN  IF root_i # root_j THEN [par2 EXCEPT ![root_j] = root_i] ELSE par2

\* self.parent after union(i, j)
UnionFindUnion(par, i, j) ==
    LET par1   == FindParent(par, i)
        root_i == FindRoot(par, i)
        par2   == FindParent(par1, j)
        root_j == FindRoot(par1, j)
    IN  IF root_i # root_j THEN [par2 EXCEPT ![root_i] = root_j] ELSE par2

(***************************************************************************)
(* _connected_segments, one loop iteration per step.                       *)
(***************************************************************************)
MaxSegs == 3
MaxWalk == 7

\* The points the input segments start at and end at: four tolerance cells
\* in all, one of them holding two points (they differ by less than the
\* tolerance), one of them reached through a negative coordinate (truncated
\* toward 0).
StartPoints == { <<0, 0>>, <<1, 0>>, <<SubTol, 0>>, <<-1, SubTol>> }
EndPoints == { <<0, 0>>, <<1, 0>>, <<SubTol, 0>>, <<SubTol, SubTol>> }

\* A segment as the stitcher reads it: c[0] is c[1] here, c[3] is c[4].
Segments == { <<a, a, b, b>> : a \in StartPoints, b \in EndPoints }

Curves(max_segs) == UNION { [1..n -> Segments] : n \in 1..max_segs }

StitchInit ==
    /\ curve \in Curves(MaxSegs)
    /\ begin_hash = <<>>
    /\ parent = <<>>
    /\ sets = <<>>
    /\ segments = <<>>
    /\ seg = <<>>
    /\ key = <<>>
    /\ s = 0
    /\ index = 1
    /\ diag = <<>>
    /\ pc = "begin_hash"

StitchIdle ==
    /\ curve = <<>>
    /\ begin_hash = <<>>
    /\ parent = <<>>
    /\ sets = <<>>
    /\ segments = <<>>
    /\ seg = <<>>
    /\ key = <<>>
    /\ s = 0
    /\ index = 0
    /\ diag = <<>>
    /\ pc = "idle"

StitchFrame == UNCHANGED <<viewVars, exportVars, webVars>>

\* the dict d with d[k] = v
DictPut(d, k, v) == [x \in DOMAIN d \cup {k} |-> IF x = k THEN v ELSE d[x]]

\* lines 357-361, one iteration; after the last one, lines 363-364
HashStep ==
    /\ pc = "begin_hash"
    /\ LET k == _create_key(curve[index][1])
       IN  /\ diag' = IF k \in DOMAIN begin_hash
                      THEN Append(diag, <<"problem repeated key!", index>>)
                      ELSE diag
           /\ begin_hash' = DictPut(begin_hash, k, index)
    /\ IF index < Len(curve)
       THEN /\ index' = index + 1
            /\ UNCHANGED <<pc, parent>>
       ELSE /\ index' = 1
            /\ parent' = UnionFindInit(Len(curve))
            /\ pc' = "union"
    /\ UNCHANGED <<curve, sets, segments, seg, key, s>>
    /\ StitchFrame

\* lines 365-368, one iteration
UnionStep ==
    /\ pc = "union"
    /\ LET y_cur == _create_key(curve[index][4])
       IN  parent' = IF y_cur \in DOMAIN begin_hash
                     THEN UnionFindUnion(parent, begin_hash[y_cur], index)
                     ELSE parent
    /\ IF index < Len(curve)
       THEN /\ index' = index + 1
            /\ pc' = pc
       ELSE /\ index' = 1
            /\ pc' = "sets"
    /\ UNCHANGED <<curve, begin_hash, sets, segments, seg, key, s, diag>>
    /\ StitchFrame

\* sets after sets[root].append(i), root inserted last when it is new
SetsAdd(ss, root, i) ==
    IF \E n \in DOMAIN ss : ss[n][1] = root
    THEN [n \in DOMAIN ss |-> IF ss[n][1] = root
                              THEN <<root, Append(ss[n][2], i)>>
                              ELSE ss[n]]
    ELSE Append(ss, <<root, <<i>>>>)

\* lines 371-376, one iteration; after the last one, line 378
SetsStep ==
    /\ pc = "sets"
    /\ sets' = SetsAdd(sets, FindRoot(parent, index), index)
    /\ parent' = FindParent(parent, index)
    /\ IF index < Len(curve)
       THEN /\ index' = index + 1
            /\ pc' = pc
       ELSE /\ index' = 1
            /\ pc' = "paths"
    /\ UNCHANGED <<curve, begin_hash, segments, seg, key, s, diag>>
    /\ StitchFrame

\* lines 379-381: the next root of sets starts a path; index runs over sets
PathStart ==
    /\ pc = "paths"
    /\ index <= Len(sets)
    /\ s' = sets[index][1]
    /\ seg' = <<sets[index][1]>>
    /\ key' = _create_key(curve[sets[index][1]][4])
    /\ pc' = "walk"
    /\ UNCHANGED <<curve, begin_hash, parent, sets, segments, index, diag>>
    /\ StitchFrame

\* lines 382-389: one iteration of the while loop
WalkStep ==
    /\ pc = "walk"
    /\ key \in DOMAIN begin_hash
    /\ Len(seg) < MaxWalk
    /\ LET s1      == begin_hash[key]
           old_key == key
           key1    == _create_key(curve[s1][4])
       IN  /\ s' = s1
           /\ seg' = Append(seg, s1)
           /\ key' = key1
           /\ IF old_key = key1
              THEN /\ diag' = Append(diag, <<"Breaking out of loop.">>)
                   /\ pc' = "append"
              ELSE /\ diag' = diag
                   /\ pc' = "walk"
    /\ UNCHANGED <<curve, begin_hash, parent, sets, segments, index>>
    /\ StitchFrame

\* the while condition of line 382 fails
WalkEnd ==
    /\ pc = "walk"
    /\ key \notin DOMAIN begin_hash
    /\ pc' = "append"
    /\ UNCHANGED <<curve, begin_hash, parent, sets, segments, seg, key, s, index, diag>>
    /\ StitchFrame

\* line 392, and line 394 after the last root
PathAppend ==
    /\ pc = "append"
    /\ segments' = Append(segments, seg)
    /\ seg' = <<>>
    /\ index' = index + 1
    /\ pc' = IF index < Len(sets) THEN "paths" ELSE "return"
    /\ UNCHANGED <<curve, begin_hash, parent, sets, key, s, diag>>
    /\ StitchFrame

StitchNext ==
    \/ HashStep
    \/ UnionStep
    \/ SetsStep
    \/ PathStart
    \/ WalkStep
    \/ WalkEnd
    \/ PathAppend

(***************************************************************************)
(* export_flatmapsvg_from_scene, lines 96-111: the bounding box of the     *)
(* rendered paths and the viewBox.  svg2paths and Path.bbox() belong to    *)
(* svgpathtools; each path's box (xmin, xmax, ymin, ymax) is an input.     *)
(* A length is a fixed-point number <<w, f>>, which stands for              *)
(* w + f / ViewScale with 0 <= f < ViewScale.                              *)
(***************************************************************************)
ViewScale == 4
MaxPaths == 2
MaxWhole == 1

view_margin == 10
BBoxSentinel == 999999999

FxLe(a, b) == a[1] < b[1] \/ (a[1] = b[1] /\ a[2] <= b[2])
FxMin(a, b) == IF FxLe(a, b) THEN a ELSE b
FxMax(a, b) == IF FxLe(b, a) THEN a ELSE b
FxSub(a, b) == IF a[2] >= b[2] THEN <<a[1] - b[1], a[2] - b[2]>>
                               ELSE <<a[1] - b[1] - 1, a[2] - b[2] + ViewScale>>

\* int(x + 0.5): x + 0.5 truncated toward zero
IntPlusHalf(x) ==
    LET floor == x[1] + (IF 2 * x[2] >= ViewScale THEN 1 ELSE 0)
        whole == 2 * x[2] = ViewScale
    IN  IF floor >= 0 \/ whole THEN floor ELSE floor + 1

\* lines 105-109
ViewBox(b) ==
    << IntPlusHalf(b[1]) - view_margin,
       IntPlusHalf(b[3]) - view_margin,
       IntPlusHalf(FxSub(b[2], b[1])) + 2 * view_margin,
       IntPlusHalf(FxSub(b[4], b[3])) + 2 * view_margin >>

\* lines 99-103
BBoxMerge(b, path_bbox) ==
    << FxMin(path_bbox[1], b[1]), FxMax(path_bbox[2], b[2]),
       FxMin(path_bbox[3], b[3]), FxMax(path_bbox[4], b[4]) >>

\* the coordinates of the inputs, negative and positive, whole and not
Lengths == { <<w, f>> : w \in -MaxWhole..(MaxWhole - 1), f \in 0..(ViewScale - 1) }
Intervals == { <<lo, hi>> \in Lengths \X Lengths : FxLe(lo, hi) }

\* the boxes (xmin, xmax, ymin, ymax) Path.bbox() can return
PathBoxes == { <<x[1], x[2], y[1], y[2]>> : x \in Intervals, y \in Intervals }

\* line 97, with n paths to visit
ViewStart(n) ==
    /\ paths_left = n
    /\ bbox = << <<BBoxSentinel, 0>>, <<-BBoxSentinel, 0>>,
                 <<BBoxSentinel, 0>>, <<-BBoxSentinel, 0>> >>
    /\ view_box = <<>>
    /\ vpc = "bbox"

ViewInit == \E n \in 0..MaxPaths : ViewStart(n)

ViewIdle ==
    /\ paths_left = 0
    /\ bbox = <<>>
    /\ view_box = <<>>
    /\ vpc = "idle"

ViewFrame == UNCHANGED <<stitchVars, exportVars, webVars>>

\* lines 98-103, one iteration
BBoxStep ==
    /\ vpc = "bbox"
    /\ paths_left > 0
    /\ \E path_bbox \in PathBoxes : bbox' = BBoxMerge(bbox, path_bbox)
    /\ paths_left' = paths_left - 1
    /\ UNCHANGED <<view_box, vpc>>
    /\ ViewFrame

\* lines 105-111
ViewBoxStep ==
    /\ vpc = "bbox"
    /\ paths_left = 0
    /\ view_box' = ViewBox(bbox)
    /\ vpc' = "viewed"
    /\ UNCHANGED <<paths_left, bbox>>
    /\ ViewFrame

ViewNext == BBoxStep \/ ViewBoxStep

(***************************************************************************)
(* Python values.  A dict is a sequence of <<key, value>> pairs in         *)
(* insertion order.  A value of the sampler's dict is a list of samples    *)
(* or a display name; ListValue and StrValue tell them apart as            *)
(* isinstance does.                                                        *)
(***************************************************************************)
ListValue(items) == [type |-> "list", items |-> items]
StrValue(text) == [type |-> "str", text |-> text]

isinstance_list(v) == v.type = "list"

\* every value taken for true
AlwaysTruthy(v) == TRUE

\* bool(v): an empty list and an empty string are false
Truthy(v) == IF v.type = "list" THEN v.items # <<>> ELSE v.text # ""

DictKeys(d) == [i \in DOMAIN d |-> d[i][1]]
DictHas(d, k) == \E i \in DOMAIN d : d[i][1] = k
DictGet(d, k) == d[CHOOSE i \in DOMAIN d : d[i][1] = k][2]
\* d[k] = v: a new key goes last, an old key keeps its place
DictSet(d, k, v) ==
    IF DictHas(d, k)
    THEN [i \in DOMAIN d |-> IF d[i][1] = k THEN <<k, v>> ELSE d[i]]
    ELSE Append(d, <<k, v>>)

(***************************************************************************)
(* Python strings that the code takes apart or builds are sequences of     *)
(* characters; display names and CSV cells, which it only compares, are    *)
(* strings.                                                                *)
(***************************************************************************)
S_group_ == <<"g", "r", "o", "u", "p", "_">>
S_nerve_feature_ == <<"n", "e", "r", "v", "e", "_", "f", "e", "a", "t", "u", "r", "e", "_">>
S_ungrouped == <<"u", "n", "g", "r", "o", "u", "p", "e", "d">>

DigitChars == <<"0", "1", "2", "3", "4", "5", "6", "7", "8", "9">>

RECURSIVE DecimalStr(_)
\* f"{n}" of a natural number
DecimalStr(n) ==
    IF n < 10 THEN <<DigitChars[n + 1]>>
    ELSE DecimalStr(n \div 10) \o <<DigitChars[(n % 10) + 1]>>

\* str.rjust(width, fill)
RJust(str, width, fill) ==
    IF Len(str) >= width THEN str
    ELSE [i \in 1..(width - Len(str)) |-> fill] \o str

\* str.startswith(prefix)
StartsWith(str, prefix) ==
    Len(str) >= Len(prefix) /\ SubSeq(str, 1, Len(prefix)) = prefix

RECURSIVE StrReplace(_, _, _)
\* str.replace(old, new), old not empty: every occurrence, left to right
StrReplace(str, old, new) ==
    IF Len(str) < Len(old) THEN str
    ELSE IF StartsWith(str, old)
         THEN new \o StrReplace(SubSeq(str, Len(old) + 1, Len(str)), old, new)
         ELSE <<Head(str)>> \o StrReplace(Tail(str), old, new)

\* the prefix put before the label instead of replacing "group_"
GroupSvgIdPrefixed(group_name) == S_nerve_feature_ \o group_name

_group_svg_id(group_name) == StrReplace(group_name, S_group_, S_nerve_feature_)

_is_group_svg_id(name) == StartsWith(name, S_nerve_feature_)

\* the number without its padding
GroupNumberUnpadded(index_, size_of_digits) == DecimalStr(index_ + 1)

_group_number(index_, size_of_digits) == RJust(DecimalStr(index_ + 1), size_of_digits, "0")

\* f"group_{_group_number(group_index, size_of_digits)}"
GroupLabel(group_index, size_of_digits) == S_group_ \o _group_number(group_index, size_of_digits)

(***************************************************************************)
(* _analyze_elements.  An element of the mesh is a record: its identifier, *)
(* the evaluations that fail on it, and the positions in group_list of the *)
(* groups whose mesh group contains it.  The element with identifier n     *)
(* runs from (3(n-1), 0, 0) to (3n, 0, 0) with tangent (3, 0, 0).          *)
(***************************************************************************)
None == <<>>
Some(v) == <<v>>

Evaluations == {"values_1", "values_2", "derivatives_1", "derivatives_2"}

FieldValue(element, which) ==
    CASE which = "values_1" -> <<3 * (element.id - 1), 0, 0>>
      [] which = "values_2" -> <<3 * element.id, 0, 0>>
      [] OTHER -> <<3, 0, 0>>

\* the values when evaluateReal returns RESULT_OK, else None
_evaluate_field_data(element, which) ==
    IF which \in element.fails THEN None ELSE Some(FieldValue(element, which))

\* lines 259-261: line_path_points, None when an evaluation failed
LinePathPoints(element) ==
    LET values_1      == _evaluate_field_data(element, "values_1")
        values_2      == _evaluate_field_data(element, "values_2")
        derivatives_1 == _evaluate_field_data(element, "derivatives_1")
        derivatives_2 == _evaluate_field_data(element, "derivatives_2")
    IN  IF values_1 # None /\ values_2 # None /\ derivatives_1 # None /\ derivatives_2 # None
        THEN Some(<< <<values_1[1], derivatives_1[1]>>, <<values_2[1], derivatives_2[1]>> >>)
        ELSE None

RECURSIVE LabelGroups(_, _, _, _)
\* lines 241-247 from group_index on (group_index counts from 0)
LabelGroups(gl, group_index, size_of_digits, gpp) ==
    IF group_index >= Len(gl) THEN gpp
    ELSE LET group_name  == gl[group_index + 1]
             group_label == GroupLabel(group_index, size_of_digits)
         IN  IF group_name # "marker"
             THEN LabelGroups(gl, group_index + 1, size_of_digits,
                      DictSet(DictSet(gpp, group_label, ListValue(<<>>)),
                              _group_svg_id(group_label), StrValue(group_name)))
             ELSE LabelGroups(gl, group_index + 1, size_of_digits, gpp)

\* grouped_path_points[k].append(x)
DictAppend(gpp, k, x) == DictSet(gpp, k, ListValue(Append(DictGet(gpp, k).items, x)))

RECURSIVE AppendToGroups(_, _, _, _, _, _)
\* lines 266-273 from group_index on; st is [gpp, in_group, error]
AppendToGroups(gl, element, line_path_points, group_index, size_of_digits, st) ==
    IF group_index >= Len(gl) THEN st
    ELSE IF (group_index + 1) \in element.groups
         THEN LET group_label == GroupLabel(group_index, size_of_digits)
              IN  IF ~DictHas(st.gpp, group_label)
                  THEN [st EXCEPT !.error = "KeyError"]
                  ELSE AppendToGroups(gl, element, line_path_points, group_index + 1,
                           size_of_digits,
                           [gpp |-> DictAppend(st.gpp, group_label, line_path_points),
                            in_group |-> TRUE, error |-> ""])
         ELSE AppendToGroups(gl, element, line_path_points, group_index + 1,
                  size_of_digits, st)

RECURSIVE SampleElements(_, _, _, _, _)
\* lines 253-278 from the i-th element on; st is [gpp, mesh_group_bound,
\* error], mesh_group_bound telling whether line 267 has bound mesh_group
SampleElements(gl, m, i, size_of_digits, st) ==
    IF i > Len(m) \/ st.error # "" THEN st
    ELSE LET line_path_points == LinePathPoints(m[i])
         IN  IF line_path_points = None
             THEN SampleElements(gl, m, i + 1, size_of_digits, st)
             ELSE LET r == AppendToGroups(gl, m[i], line_path_points[1], 0, size_of_digits,
                               [gpp |-> st.gpp, in_group |-> FALSE, error |-> ""])
                  IN  SampleElements(gl, m, i + 1, size_of_digits,
                          [gpp |-> IF r.error = "" /\ ~r.in_group
                                   THEN DictAppend(r.gpp, S_ungrouped, line_path_points[1])
                                   ELSE r.gpp,
                           mesh_group_bound |-> st.mesh_group_bound \/ Len(gl) > 0,
                           error |-> r.error])

\* The outcome of _analyze_elements: [error, value].  error is "" when the
\* function returns value, else the exception it raises.
_analyze_elements(gl, m) ==
    IF Len(m) = 0 THEN [error |-> "", value |-> <<>>]
    ELSE LET size_of_digits == Len(DecimalStr(Len(gl)))
             labelled == LabelGroups(gl, 0, size_of_digits,
                             << <<S_ungrouped, ListValue(<<>>)>> >>)
             st == SampleElements(gl, m, 1, size_of_digits,
                       [gpp |-> labelled, mesh_group_bound |-> FALSE, error |-> ""])
         IN  IF st.error # "" THEN [error |-> st.error, value |-> <<>>]
             \* line 281: del mesh_group; line 282: del group
             ELSE IF ~st.mesh_group_bound \/ Len(gl) = 0
                  THEN [error |-> "UnboundLocalError", value |-> <<>>]
                  ELSE [error |-> "", value |-> st.gpp]

(***************************************************************************)
(* _calculate_bezier_curve and _calculate_bezier_control_points.           *)
(* A sample is <<<<P0, T0>>, <<P1, T1>>>>: position and tangent at the two *)
(* ends of an element.  The components of the tangents are multiples of 3, *)
(* so that the division by 3 is exact.                                     *)
(***************************************************************************)
\* v[:2]
FirstTwo(v) == SubSeq(v, 1, IF Len(v) < 2 THEN Len(v) ELSE 2)

\* cmlibs.maths.vectorops
add(u, v) == [i \in DOMAIN u |-> u[i] + v[i]]
sub(u, v) == [i \in DOMAIN u |-> u[i] - v[i]]
div(u, f) == [i \in DOMAIN u |-> u[i] \div f]

\* a slip of sign in b2: the end tangent added instead of subtracted
BezierCurveEndTangentAdded(pt_1, pt_2) ==
    LET h0 == FirstTwo(pt_1[1])
        v0 == FirstTwo(pt_1[2])
        h1 == FirstTwo(pt_2[1])
        v1 == FirstTwo(pt_2[2])
    IN  << h0, add(h0, div(v0, 3)), add(h1, div(v1, 3)), h1 >>

_calculate_bezier_curve(pt_1, pt_2) ==
    LET h0 == FirstTwo(pt_1[1])
        v0 == FirstTwo(pt_1[2])
        h1 == FirstTwo(pt_2[1])
        v1 == FirstTwo(pt_2[2])
    IN  << h0, add(h0, div(v0, 3)), sub(h1, div(v1, 3)), h1 >>

\* lines 321-323: the segments of one group's samples
BezierOfList(items) ==
    [k \in DOMAIN items |-> _calculate_bezier_curve(items[k][1], items[k][2])]

RECURSIVE BezierFrom(_, _, _)
\* lines 319-323 from the i-th entry of point_data on
BezierFrom(pd, i, bz) ==
    IF i > Len(pd) THEN bz
    ELSE LET point_group == pd[i][1]
             value       == pd[i][2]
         IN  IF Truthy(value) /\ isinstance_list(value)
             THEN BezierFrom(pd, i + 1, DictSet(bz, point_group, BezierOfList(value.items)))
             ELSE BezierFrom(pd, i + 1, bz)

_calculate_bezier_control_points(pd) == BezierFrom(pd, 1, <<>>)

MaxSamples == 2

\* The samples of the inputs; the third components take part in nothing.
Positions0 == { <<3, -6, 7>> }
Tangents0  == { <<3, 0, 9>>, <<-6, 3, 9>> }
Positions1 == { <<6, 3, 8>> }
Tangents1  == { <<0, -3, 9>>, <<9, 6, 9>> }
Samples == { <<<<p0, t0>>, <<p1, t1>>>> :
             p0 \in Positions0, t0 \in Tangents0, p1 \in Positions1, t1 \in Tangents1 }
SampleLists(max_samples) == UNION { [1..n -> Samples] : n \in 0..max_samples }

\* The sampler's output for one declared group: "ungrouped", the group's
\* list and the group's display name; or its output for an empty mesh.
PointData(max_samples) ==
    { << <<S_ungrouped, ListValue(u)>>, <<GroupLabel(0, 1), ListValue(g)>>,
         <<_group_svg_id(GroupLabel(0, 1)), StrValue("ureter")>> >> :
      u \in SampleLists(max_samples), g \in SampleLists(max_samples) }
    \cup { <<>> }

\* nothing of lines 94-152 has run and no annotation file is set
OutIdle ==
    /\ marker_region = None
    /\ markers = <<>>
    /\ svg = <<>>
    /\ printed = <<>>
    /\ annotations_csv_file = None
    /\ reversed_map = None
    /\ features = <<>>

\* the call has reached line 93 with path_points drawn from PointData
BezierInit ==
    /\ group_list = <<>>
    /\ mesh = <<>>
    /\ path_points \in PointData(MaxSamples)
    /\ bezier = <<>>
    /\ error = ""
    /\ xpc = "bezier"
    /\ OutIdle

ExportIdle ==
    /\ group_list = <<>>
    /\ mesh = <<>>
    /\ path_points = <<>>
    /\ bezier = <<>>
    /\ error = ""
    /\ xpc = "idle"
    /\ OutIdle

ExportFrame == UNCHANGED <<stitchVars, viewVars, webVars>>

\* line 93
CalculateBezier ==
    /\ xpc = "bezier"
    /\ bezier' = _calculate_bezier_control_points(path_points)
    /\ xpc' = "markers"
    /\ UNCHANGED <<group_list, mesh, path_points, error, outVars>>
    /\ ExportFrame

BezierNext == CalculateBezier

(***************************************************************************)
(* The region: its groups and its mesh.                                    *)
(***************************************************************************)
MaxGroups == 2
MaxElems == 2
MaxManyGroups == 11

GroupNames == {"marker", "ureter", "vagus"}
ManyNames == <<"n01", "n02", "n03", "n04", "n05", "n06", "n07",
               "n08", "n09", "n10", "n11", "n12", "n13", "n14">>

Injective(f) == \A a, b \in DOMAIN f : a # b => f[a] # f[b]

\* a few groups of any names, every one distinct
GroupLists ==
    UNION { {gl \in [1..n -> GroupNames] : Injective(gl)} : n \in 0..MaxGroups }

\* no evaluation of an element fails, or the first does, or the last, or all
Failures == { {}, {"values_1"}, {"derivatives_2"}, Evaluations }

\* the elements of a mesh with n_groups groups; the identifier of an
\* element is its place in the iteration
Elements(n_groups) ==
    { [id |-> i, fails |-> f, groups |-> g] :
      i \in 1..MaxElems, f \in Failures, g \in SUBSET (1..n_groups) }

Meshes(n_groups) ==
    UNION { {m \in [1..n -> Elements(n_groups)] : \A i \in 1..n : m[i].id = i} :
            n \in 0..MaxElems }

\* many groups, one of them possibly named "marker"
ManyGroupLists ==
    { [i \in 1..n |-> IF i = k THEN "marker" ELSE ManyNames[i]] :
      n \in (MaxGroups + 1)..MaxManyGroups, k \in 0..MaxManyGroups }

\* one element, in the first and the last group or in none
FewMeshes(n_groups) ==
    { << [id |-> 1, fails |-> {}, groups |-> g] >> : g \in { {}, {1, n_groups} } }

\* the call has reached line 92
SampleInit ==
    /\ \/ group_list \in GroupLists /\ mesh \in Meshes(Len(group_list))
       \/ group_list \in ManyGroupLists /\ mesh \in FewMeshes(Len(group_list))
    /\ path_points = <<>>
    /\ bezier = <<>>
    /\ error = ""
    /\ xpc = "analyze"
    /\ OutIdle

\* line 92
AnalyzeElements ==
    /\ xpc = "analyze"
    /\ LET r == _analyze_elements(group_list, mesh)
       IN  /\ path_points' = r.value
           /\ error' = r.error
           /\ xpc' = IF r.error = "" THEN "bezier" ELSE "raised"
    /\ UNCHANGED <<group_list, mesh, bezier, outVars>>
    /\ ExportFrame

SampleNext == AnalyzeElements

(***************************************************************************)
(* _calculate_markers.  A datapoint of the marker group is a record: its   *)
(* native identifier, the value of marker_data_coordinates on it, and the  *)
(* strings that marker_data_name and marker_data_id hold for it.           *)
(***************************************************************************)
S_marker_ == <<"m", "a", "r", "k", "e", "r", "_">>
S_Unnamed_marker_ ==
    <<"U", "n", "n", "a", "m", "e", "d", " ", "m", "a", "r", "k", "e", "r", " ">>
S_UBERON_99 == <<"U", "B", "E", "R", "O", "N", ":", "9", "9">>

probable_group_names == <<"marker", "markers">>

\* lines 174-177: one of the probable names is the name of a field
MarkersGroupValid(gl) ==
    \E i \in DOMAIN probable_group_names : probable_group_names[i] \in Range(gl)

\* f"{rand_num:0=5}"
ZeroPad5(rand_num) == RJust(DecimalStr(rand_num), 5, "0")

\* the placeholder without its padding
OntoIdUnpadded(rand_num) == S_UBERON_99 \o DecimalStr(rand_num)

\* line 202
OntoIdOf(rand_num) == S_UBERON_99 \o ZeroPad5(rand_num)

\* lines 166-208; rand_nums[i] is what random.randint returns for the i-th
\* datapoint.  The i of the code is i - 1 here.
_calculate_markers(gl, datapoints, name_field_valid, id_field_valid, rand_nums) ==
    IF MarkersGroupValid(gl)
    THEN [i \in DOMAIN datapoints |->
             LET marker == datapoints[i]
             IN  << S_marker_ \o DecimalStr(marker.identifier),
                    FirstTwo(marker.values),
                    IF name_field_valid THEN marker.name
                    ELSE S_Unnamed_marker_ \o DecimalStr(i),
                    IF id_field_valid THEN marker.id
                    ELSE OntoIdOf(rand_nums[i]) >>]
    ELSE <<>>

(***************************************************************************)
(* _write_into_svg_format.  The document is the sequence of the children   *)
(* of its root.  A <path> records the segments that _connected_segments    *)
(* orders into its d attribute (SpecStitch models that function), its      *)
(* stroke and the identifier inside its <title>, None when it has no       *)
(* <title>.  A <circle> records its centre and the identifier inside its   *)
(* <title>.                                                                *)
(***************************************************************************)
\* lines 397-411; group_name is None or Some(name)
_write_connected_svg_bezier_path(curve_, group_name) ==
    [tag |-> "path", d |-> curve_,
     stroke |-> IF group_name = None THEN "grey" ELSE "#01136e",
     title |-> IF group_name = None THEN None ELSE Some(_group_svg_id(group_name[1]))]

RECURSIVE WriteGroups(_, _)
\* lines 416-419 from the i-th entry of bezier_data on
WriteGroups(bezier_data, i) ==
    IF i > Len(bezier_data) THEN <<>>
    ELSE LET group_name == bezier_data[i][1]
         IN  << _write_connected_svg_bezier_path(bezier_data[i][2],
                    IF group_name # S_ungrouped THEN Some(group_name) ELSE None) >>
             \o WriteGroups(bezier_data, i + 1)

\* line 432 raises IndexError when marker[1] has fewer than two components
MarkerRaises(marker) == Len(marker[2]) < 2

RECURSIVE WriteMarkers(_, _)
\* lines 430-436 from the i-th marker on: [svg, printed]
WriteMarkers(ms, i) ==
    IF i > Len(ms) THEN [svg |-> <<>>, printed |-> <<>>]
    ELSE LET rest == WriteMarkers(ms, i + 1)
         IN  IF MarkerRaises(ms[i])
             THEN [svg |-> rest.svg,
                   printed |-> << <<"Invalid marker for export:", ms[i]>> >> \o rest.printed]
             ELSE [svg |-> << [tag |-> "circle", cx |-> ms[i][2][1], cy |-> ms[i][2][2],
                               title |-> Some(ms[i][1])] >> \o rest.svg,
                   printed |-> rest.printed]

\* lines 414-440: [svg, printed]
_write_into_svg_format(bezier_data, ms) ==
    LET written == WriteMarkers(ms, 1)
    IN  [svg |-> WriteGroups(bezier_data, 1) \o written.svg, printed |-> written.printed]

(***************************************************************************)
(* The annotation file.  csv.reader yields the rows of the file, each a    *)
(* list of cells.                                                          *)
(***************************************************************************)
\* lines 471-485: the reader is an object, so line 471 always passes
_is_annotation_csv_file(rows) ==
    \A i \in DOMAIN rows :
        IF i = 1
        THEN Len(rows[i]) = 2 /\ rows[i][1] = "Term ID" /\ rows[i][2] = "Group name"
        ELSE Len(rows[i]) = 2

RECURSIVE ReverseMapFrom(_, _, _)
\* lines 448-452 from the i-th row on
ReverseMapFrom(rows, i, reverse_map) ==
    IF i > Len(rows) THEN reverse_map
    ELSE ReverseMapFrom(rows, i + 1,
             IF i = 1 THEN reverse_map
             ELSE DictSet(reverse_map, rows[i][2], rows[i][1]))

\* the first row for a name is kept, the later ones dropped
ReverseMapFirstWins(rows) ==
    LET keep(m, row) == IF DictHas(m, row[2]) THEN m ELSE Append(m, <<row[2], row[1]>>)
        F[i \in 0..Len(rows)] ==
            IF i <= 1 THEN <<>> ELSE keep(F[i - 1], rows[i])
    IN  F[Len(rows)]

\* lines 443-454
_reverse_map_annotations(rows) == ReverseMapFrom(rows, 1, <<>>)

\* lines 457-458
_label_has_annotations(entry, annotation_map) ==
    DictHas(annotation_map, entry) /\ DictGet(annotation_map, entry) # ""

\* lines 114-124: None, or Some(the reverse map)
ReadReversedMap(file) ==
    IF file # None /\ _is_annotation_csv_file(file[1])
    THEN Some(_reverse_map_annotations(file[1]))
    ELSE None

(***************************************************************************)
(* The features of properties.json.  A Feature is a record; the models     *)
(* field is None when the Feature has no such key.                         *)
(***************************************************************************)
RECURSIVE CentrelineFeatures(_, _, _, _)
\* lines 128-136 from the i-th key of path_points on
CentrelineFeatures(pp, i, rm, fs) ==
    IF i > Len(pp) THEN fs
    ELSE LET path_key == pp[i][1]
             label    == pp[i][2].text
         IN  IF _is_group_svg_id(path_key)
             THEN CentrelineFeatures(pp, i + 1, rm,
                      DictSet(fs, path_key,
                          [label |-> label, type |-> "centreline",
                           models |-> IF rm # None /\ _label_has_annotations(label, rm[1])
                                      THEN Some(DictGet(rm[1], label))
                                      ELSE None]))
             ELSE CentrelineFeatures(pp, i + 1, rm, fs)

RECURSIVE MarkerFeatures(_, _, _)
\* lines 146-152 from the i-th marker on
MarkerFeatures(ms, i, fs) ==
    IF i > Len(ms) THEN fs
    ELSE MarkerFeatures(ms, i + 1,
             DictSet(fs, ms[i][1],
                 [name |-> ms[i][3], models |-> Some(ms[i][4]), colour |-> "orange"]))

\* lines 126-152
Features(pp, rm, ms) == MarkerFeatures(ms, 1, CentrelineFeatures(pp, 1, rm, <<>>))

(***************************************************************************)
(* export_flatmapsvg_from_scene and set_annotations_csv_file.  Lines       *)
(* 96-113 rewrite the viewBox attribute of the root and leave its children *)
(* alone; SpecView models them.                                            *)
(***************************************************************************)
MaxMarkers == 1
MaxExportElems == 1
MaxRows == 3

\* the datapoints of the marker group, in iteration order
MarkerIds == <<12, 7, 30>>
MarkerNames == <<"liver", "heart", "lung">>
MarkerOntoIds == <<"UBERON:0002107", "UBERON:0000948", "UBERON:0002048">>
\* marker_data_coordinates of one component or of three
MarkerValues == { <<5>>, <<5, 6, 7>> }
\* random.randint(1, 99999): the ends of its range
RandNums == {1, 99999}

Datapoints ==
    UNION { { [i \in 1..n |-> [identifier |-> MarkerIds[i], values |-> v[i],
                               name |-> MarkerNames[i], id |-> MarkerOntoIds[i]]] :
              v \in [1..n -> MarkerValues] } : n \in 0..MaxMarkers }

\* a region without a marker group has no datapoints of it
DatapointsOf(gl) == IF MarkersGroupValid(gl) THEN Datapoints ELSE { <<>> }

\* what random.randint returns at line 201, which runs for every datapoint
\* when there is no marker_data_id and for none when there is
RandDraws(datapoints, id_field_valid) ==
    IF id_field_valid THEN { <<>> } ELSE [DOMAIN datapoints -> RandNums]

\* whether marker_data_name, marker_data_id is a field: lines 194 and 199
\* ask for every datapoint, so for none it is not asked
FieldChoices(datapoints) == IF datapoints = <<>> THEN {TRUE} ELSE BOOLEAN

ExportGroupNames == {"marker", "markers", "ureter"}

ExportGroupLists ==
    UNION { {gl \in [1..n -> ExportGroupNames] : Injective(gl)} : n \in 0..MaxGroups }

\* every evaluation of an element succeeds, or every one fails
ExportElements(n_groups) ==
    { [id |-> i, fails |-> f, groups |-> g] :
      i \in 1..MaxExportElems, f \in { {}, Evaluations }, g \in SUBSET (1..n_groups) }

ExportMeshes(n_groups) ==
    UNION { {m \in [1..n -> ExportElements(n_groups)] : \A i \in 1..n : m[i].id = i} :
            n \in 0..MaxExportElems }

HeaderRow == <<"Term ID", "Group name">>

\* a file that annotates "ureter", and one whose header has a stray space
ExportCsvFiles ==
    { <<HeaderRow, <<"UBERON:0001255", "ureter">>>>,
      <<<<"Term ID", " Group name">>, <<"UBERON:0001255", "ureter">>>> }

CsvRows ==
    { HeaderRow, <<"UBERON:0001255", "ureter">>, <<"UBERON:0000056", "ureter">>,
      <<"", "ureter">>, <<"UBERON:0001759", "vagus">>, <<"ureter">>,
      <<"UBERON:0001255", "ureter", "left">> }

CsvFiles == UNION { [1..n -> CsvRows] : n \in 0..MaxRows }

\* the exporter is constructed and the call has reached line 92
ExportInit ==
    /\ group_list \in ExportGroupLists
    /\ mesh \in ExportMeshes(Len(group_list))
    /\ path_points = <<>>
    /\ bezier = <<>>
    /\ error = ""
    /\ xpc = "analyze"
    /\ OutIdle

\* a region without markers: one element, in a group or in none
AnnotGroupLists == { <<"ureter">>, <<"vagus", "ureter">> }

AnnotInit ==
    /\ group_list \in AnnotGroupLists
    /\ mesh \in { << [id |-> 1, fails |-> {}, groups |-> g] >> : g \in { {}, {1} } }
    /\ path_points = <<>>
    /\ bezier = <<>>
    /\ error = ""
    /\ xpc = "analyze"
    /\ OutIdle

\* lines 162-163, before the export is called
SetFile(files) ==
    /\ xpc = "analyze"
    \* a second call would only overwrite what the first has set
    /\ annotations_csv_file = None
    /\ \E file \in files : annotations_csv_file' = Some(file)
    /\ UNCHANGED <<group_list, mesh, path_points, bezier, error, xpc,
                   marker_region, markers, svg, printed, reversed_map, features>>
    /\ ExportFrame

SetAnnotationsCsvFile == SetFile(ExportCsvFiles)

SetAnyAnnotationsCsvFile == SetFile(CsvFiles)

\* line 94
CalculateMarkers ==
    /\ xpc = "markers"
    /\ \E datapoints \in DatapointsOf(group_list) :
       \E name_field_valid \in FieldChoices(datapoints),
          id_field_valid \in FieldChoices(datapoints) :
           \E rand_nums \in RandDraws(datapoints, id_field_valid) :
               /\ marker_region' = Some([datapoints |-> datapoints,
                                          name_field_valid |-> name_field_valid,
                                          id_field_valid |-> id_field_valid])
               /\ markers' = _calculate_markers(group_list, datapoints, name_field_valid,
                                                id_field_valid, rand_nums)
    /\ xpc' = "svg"
    /\ UNCHANGED <<group_list, mesh, path_points, bezier, error,
                   svg, printed, annotations_csv_file, reversed_map, features>>
    /\ ExportFrame

\* line 95
WriteIntoSvgFormat ==
    /\ xpc = "svg"
    /\ LET r == _write_into_svg_format(bezier, markers)
       IN  /\ svg' = r.svg
           /\ printed' = r.printed
    /\ xpc' = "csv"
    /\ UNCHANGED <<group_list, mesh, path_points, bezier, error,
                   marker_region, markers, annotations_csv_file, reversed_map, features>>
    /\ ExportFrame

\* lines 114-124
ReadAnnotations ==
    /\ xpc = "csv"
    /\ reversed_map' = ReadReversedMap(annotations_csv_file)
    /\ xpc' = "features"
    /\ UNCHANGED <<group_list, mesh, path_points, bezier, error,
                   marker_region, markers, svg, printed, annotations_csv_file, features>>
    /\ ExportFrame

\* lines 126-160: properties.json holds features, the .svg file holds svg
BuildFeatures ==
    /\ xpc = "features"
    /\ features' = Features(path_points, reversed_map, markers)
    /\ xpc' = "written"
    /\ UNCHANGED <<group_list, mesh, path_points, bezier, error,
                   marker_region, markers, svg, printed, annotations_csv_file, reversed_map>>
    /\ ExportFrame

ExportNext ==
    \/ SetAnnotationsCsvFile
    \/ AnalyzeElements
    \/ CalculateBezier
    \/ CalculateMarkers
    \/ WriteIntoSvgFormat
    \/ ReadAnnotations
    \/ BuildFeatures

AnnotNext ==
    \/ SetAnyAnnotationsCsvFile
    \/ AnalyzeElements
    \/ CalculateBezier
    \/ CalculateMarkers
    \/ WriteIntoSvgFormat
    \/ ReadAnnotations
    \/ BuildFeatures

(***************************************************************************)
(* cmlibs.exporter.webgl: export_webgl_from_scene, lines 151-221.          *)
(* Resource 0 is the metadata; its buffer names resource k as              *)
(* "memory_resource_<k + 1>".  Indices count from 0 as in the code.        *)
(***************************************************************************)
MaxResources == 4

S_prefix == <<"p", "r", "e", "f", "i", "x">>
S_json == <<".", "j", "s", "o", "n">>
S_high == <<"h", "i", "g", "h">>

\* what resources[i].getBuffer() gives: a buffer, a result that is not
\* ZINC_OK, or no buffer
BufferOutcomes == {"buffer", "error", "none"}

\* str(i_).zfill(number_of_digits)
ZFill(i_, number_of_digits) == RJust(DecimalStr(i_), number_of_digits, "0")

\* line 162: math.floor(math.log10(number)) + 1, number >= 1
NumberOfDigits(n) == Len(DecimalStr(n))

\* lines 164-167; level is None or Some(the tessellation level)
_resource_filename(prefix, i_, level, number_of_digits) ==
    IF level # None
    THEN prefix \o <<"_">> \o level[1] \o <<"_">>
             \o ZFill(i_, number_of_digits) \o S_json
    ELSE prefix \o <<"_">> \o ZFill(i_, number_of_digits) \o S_json

\* metadata_file(), without the directory
MetadataFile(prefix) == prefix \o <<"_", "m", "e", "t", "a", "d", "a", "t", "a">> \o S_json

\* lines 184-191: the name put into the metadata for each resource j + 1
Substituted(n, level) ==
    [k \in 1..(n - 1) |-> _resource_filename(S_prefix, k, level, NumberOfDigits(n))]

\* the call has reached line 151 and the scene is about to be written
WebInit ==
    /\ number \in 0..MaxResources
    /\ outcomes \in [0..(number - 1) -> BufferOutcomes]
    /\ tessellation_level \in {None, Some(S_high)}
    /\ resource_i = 0
    /\ resource_count = 0
    /\ metadata = None
    /\ written_files = <<>>
    /\ wpc = "start"

WebIdle ==
    /\ number = 0
    /\ outcomes = <<>>
    /\ tessellation_level = None
    /\ resource_i = 0
    /\ resource_count = 0
    /\ metadata = None
    /\ written_files = <<>>
    /\ wpc = "idle"

WebFrame == UNCHANGED <<stitchVars, viewVars, exportVars>>

\* lines 151-153: nothing to export
WebNothing ==
    /\ wpc = "start"
    /\ number = 0
    /\ wpc' = "return"
    /\ UNCHANGED <<number, outcomes, tessellation_level, resource_i, resource_count, metadata, written_files>>
    /\ WebFrame

\* lines 155-170: the resources are created and written, the loop begins
WebBegin ==
    /\ wpc = "start"
    /\ number > 0
    /\ wpc' = "loop"
    /\ UNCHANGED <<number, outcomes, tessellation_level, resource_i, resource_count, metadata, written_files>>
    /\ WebFrame

\* the loop of line 171 goes on to its next index, or ends
Advance ==
    /\ resource_i' = resource_i + 1
    /\ wpc' = IF resource_i + 1 < number THEN "loop" ELSE "return"

\* lines 172-179: the buffer of resource i is not there, continue
SkipResource ==
    /\ wpc = "loop"
    /\ outcomes[resource_i] # "buffer"
    /\ Advance
    /\ UNCHANGED <<number, outcomes, tessellation_level, resource_count, metadata, written_files>>
    /\ WebFrame

\* lines 183-221 for i = 0: the metadata file
WriteMetadata ==
    /\ wpc = "loop"
    /\ outcomes[resource_i] = "buffer"
    /\ resource_i = 0
    /\ metadata' = Some(Substituted(number, tessellation_level))
    /\ written_files' = Append(written_files, <<MetadataFile(S_prefix), resource_i>>)
    /\ resource_count' = resource_count + 1
    /\ Advance
    /\ UNCHANGED <<number, outcomes, tessellation_level>>
    /\ WebFrame

\* lines 212-221 for i > 0: the file of resource i
WriteResource ==
    /\ wpc = "loop"
    /\ outcomes[resource_i] = "buffer"
    /\ resource_i # 0
    /\ written_files' = Append(written_files, << _resource_filename(S_prefix, resource_count,
                                     tessellation_level, NumberOfDigits(number)), resource_i >>)
    /\ resource_count' = resource_count + 1
    /\ Advance
    /\ UNCHANGED <<number, outcomes, tessellation_level, metadata>>
    /\ WebFrame

WebNext == WebNothing \/ WebBegin \/ SkipResource \/ WriteMetadata \/ WriteResource

InitStitch == StitchInit /\ ViewIdle /\ ExportIdle /\ WebIdle
SpecStitch == InitStitch /\ [][StitchNext]_vars

InitView == ViewInit /\ StitchIdle /\ ExportIdle /\ WebIdle
SpecView == InitView /\ [][ViewNext]_vars

InitBezier == BezierInit /\ StitchIdle /\ ViewIdle /\ WebIdle
SpecBezier == InitBezier /\ [][BezierNext]_vars

InitSample == SampleInit /\ StitchIdle /\ ViewIdle /\ WebIdle
SpecSample == InitSample /\ [][SampleNext]_vars

InitExport == ExportInit /\ StitchIdle /\ ViewIdle /\ WebIdle
Spec == InitExport /\ [][ExportNext]_vars

InitAnnot == AnnotInit /\ StitchIdle /\ ViewIdle /\ WebIdle
SpecAnnot == InitAnnot /\ [][AnnotNext]_vars

InitWebGL == WebInit /\ StitchIdle /\ ViewIdle /\ ExportIdle
SpecWebGL == InitWebGL /\ [][WebNext]_vars

(***************************************************************************)
(* Claims about _connected_segments.  A path of the model lists segment    *)
(* indices; the path of the code lists curve[i] for each of them.          *)
(***************************************************************************)
PathsHolding(i) == {p \in DOMAIN segments : i \in Range(segments[p])}

\* C1: when _connected_segments returns, every input segment appears in
\* exactly one of the returned paths (none is lost, none is in two paths).
C1_EverySegmentInExactlyOnePath ==
    pc = "return" => \A i \in DOMAIN curve : Cardinality(PathsHolding(i)) = 1

\* C2: no returned path contains the same segment more than once.
C2_NoSegmentTwiceInAPath ==
    \A p \in DOMAIN segments :
        \A a, b \in DOMAIN segments[p] : a # b => segments[p][a] # segments[p][b]

(***************************************************************************)
(* Claims about the viewport.                                              *)
(***************************************************************************)
\* some path was visited: bbox is the true bounding box of the paths
ViewBoxOfPaths == vpc = "viewed" /\ FxLe(bbox[1], bbox[2])

\* C3: for a non-empty set of paths with bounding box [min_x, max_x] x
\* [min_y, max_y], the viewBox (x, y, w, h) has x <= min_x - 10,
\* y <= min_y - 10, x + w >= max_x + 10 and y + h >= max_y + 10.
C3_ViewBoxHoldsMargin ==
    ViewBoxOfPaths =>
        /\ FxLe(<<view_box[1] + view_margin, 0>>, bbox[1])
        /\ FxLe(<<view_box[2] + view_margin, 0>>, bbox[3])
        /\ FxLe(bbox[2], <<view_box[1] + view_box[3] - view_margin, 0>>)
        /\ FxLe(bbox[4], <<view_box[2] + view_box[4] - view_margin, 0>>)

(***************************************************************************)
(* Claims about the Bezier converter.                                      *)
(***************************************************************************)
\* the segment seg_ is the Hermite-to-Bezier image of the sample smp
BezierOfSample(seg_, smp) ==
    LET P0 == smp[1][1]
        T0 == smp[1][2]
        P1 == smp[2][1]
        T1 == smp[2][2]
    IN  /\ Len(seg_) = 4
        /\ \A c \in 1..4 : DOMAIN seg_[c] = 1..2
        /\ \A i \in 1..2 :
              /\ seg_[1][i] = P0[i]
              /\ 3 * (seg_[2][i] - P0[i]) = T0[i]
              /\ 3 * (P1[i] - seg_[3][i]) = T1[i]
              /\ seg_[4][i] = P1[i]

\* C4: b0 = P0 and b3 = P1 exactly, b1 = P0 + T0/3 and b2 = P1 - T1/3, on
\* the first two components only; every sample of a group yields exactly
\* one segment, in sample order.
C4_BezierFromSamples ==
    xpc = "markers" =>
        \A e \in DOMAIN path_points :
            LET value == path_points[e][2]
            IN  (value.type = "list" /\ value.items # <<>>) =>
                    /\ DictHas(bezier, path_points[e][1])
                    /\ LET segs == DictGet(bezier, path_points[e][1])
                       IN  /\ Len(segs) = Len(value.items)
                           /\ \A k \in DOMAIN segs : BezierOfSample(segs[k], value.items[k])

\* C4's case: a group with two different samples was converted
C4_Witness ==
    /\ xpc = "markers"
    /\ \E e \in DOMAIN bezier :
          /\ Len(bezier[e][2]) = 2
          /\ bezier[e][2][1] # bezier[e][2][2]

(***************************************************************************)
(* Claims about the sampler.                                               *)
(***************************************************************************)
\* the call of _analyze_elements has ended, by return or by exception
Analyzed == xpc \notin {"idle", "analyze"}

\* the keys "group_NNN" of path_points, in the dict's order
LabelKeys ==
    LET IsLabel(entry) == entry[2].type = "list" /\ entry[1] # S_ungrouped
    IN  DictKeys(SelectSeq(path_points, IsLabel))

\* the display names of path_points, in the dict's order
DisplayNames ==
    LET IsName(entry) == entry[2].type = "str"
        names == SelectSeq(path_points, IsName)
    IN  [i \in DOMAIN names |-> names[i][2].text]

\* the least k with 10^k >= n: the ceiling of log10(n), n >= 1
CeilLog10(n) == CHOOSE k \in 0..9 : 10^k >= n /\ (k = 0 \/ 10^(k - 1) < n)

DigitRank(c) == CHOOSE d \in 0..9 : DigitChars[d + 1] = c

\* a sorts before b as a string; the two differ first in a digit, or a is
\* a proper prefix of b
LexLess(a, b) ==
    \/ Len(a) < Len(b) /\ SubSeq(b, 1, Len(a)) = a
    \/ \E i \in 1..Len(a) :
          /\ i <= Len(b)
          /\ SubSeq(a, 1, i - 1) = SubSeq(b, 1, i - 1)
          /\ a[i] \in Range(DigitChars) /\ b[i] \in Range(DigitChars)
          /\ DigitRank(a[i]) < DigitRank(b[i])

\* C6: with N groups, the number of every label is padded to
\* ceil(log10(N + 1)) digits, every label has that same width, and the
\* labels sort as strings in the order the groups are iterated in.
C6_LabelWidthAndOrder ==
    (xpc = "bezier" /\ mesh # <<>>) =>
        LET not_marker(name) == name # "marker"
        IN  /\ \A i \in DOMAIN LabelKeys :
                  Len(LabelKeys[i]) = Len(S_group_) + CeilLog10(Len(group_list) + 1)
            /\ \A i, j \in DOMAIN LabelKeys : i < j => LexLess(LabelKeys[i], LabelKeys[j])
            /\ Len(LabelKeys) = Len(DisplayNames)
            /\ DisplayNames = SelectSeq(group_list, not_marker)

\* C6's case: ten groups or more were labelled, so the width is two
C6_Witness ==
    xpc = "bezier" /\ Len(LabelKeys) >= 10

\* the sample of an element none of whose evaluations fails
SampleOf(element) ==
    << <<FieldValue(element, "values_1"), FieldValue(element, "derivatives_1")>>,
       <<FieldValue(element, "values_2"), FieldValue(element, "derivatives_2")>> >>

SamplesOf(elements) == [i \in DOMAIN elements |-> SampleOf(elements[i])]

\* the samples group g (a place in group_list) is to hold
SampledInto(g) ==
    LET member(element) == element.fails = {} /\ g \in element.groups
    IN  SamplesOf(SelectSeq(mesh, member))

\* the samples "ungrouped" is to hold
SampledIntoNone ==
    LET member(element) == element.fails = {} /\ element.groups = {}
    IN  SamplesOf(SelectSeq(mesh, member))

\* path_points[key] is the list items
HoldsList(key_, items) ==
    /\ DictHas(path_points, key_)
    /\ DictGet(path_points, key_) = ListValue(items)

\* C7: for a mesh with at least one element and any list of groups,
\* _analyze_elements returns a dict in which every element whose four
\* evaluations succeed is appended, in iteration order, to the list of
\* every group that contains it, and to "ungrouped" iff no group does.
\* Stated for the meshes on which no evaluation fails.
C7_EverySampleInItsGroups ==
    (Analyzed /\ mesh # <<>> /\ \A i \in DOMAIN mesh : mesh[i].fails = {}) =>
        /\ xpc # "raised"
        /\ HoldsList(S_ungrouped, SampledIntoNone)
        /\ \A g \in DOMAIN group_list :
              (group_list[g] # "marker" \/ SampledInto(g) # <<>>) =>
                  HoldsList(GroupLabel(g - 1, Len(DecimalStr(Len(group_list)))),
                            SampledInto(g))

\* C8: an element with a failing evaluation adds no sample to any group,
\* and _analyze_elements still returns the dict, also when every element
\* fails.  Stated for the regions that declare a group.
C8_FailedElementSkipped ==
    (Analyzed /\ group_list # <<>> /\ \E i \in DOMAIN mesh : mesh[i].fails # {}) =>
        /\ xpc # "raised"
        /\ \A e \in DOMAIN path_points :
              path_points[e][2].type = "list" =>
                  \A k \in DOMAIN path_points[e][2].items :
                      \E i \in DOMAIN mesh :
                          /\ mesh[i].fails = {}
                          /\ path_points[e][2].items[k] = SampleOf(mesh[i])

(***************************************************************************)
(* Claims about the identifiers of the groups' SVG elements.               *)
(***************************************************************************)
IsDigits(str) == str # <<>> /\ \A i \in DOMAIN str : str[i] \in Range(DigitChars)

RECURSIVE DecimalValue(_)
\* the number a string of digits reads as
DecimalValue(str) ==
    IF str = <<>> THEN 0
    ELSE 10 * DecimalValue(SubSeq(str, 1, Len(str) - 1)) + DigitRank(str[Len(str)])

\* the keys of the sampler's output that hold a display name
SamplerIds == { path_points[i][1] : i \in {j \in DOMAIN path_points : path_points[j][2].type = "str"} }

\* the places in features of the centreline Features
Centrelines == { i \in DOMAIN features : "type" \in DOMAIN features[i][2] }

FeatureIds == { features[i][1] : i \in Centrelines }

\* the identifiers inside the <title> of the paths
TitleIds == { svg[i].title[1] : i \in {j \in DOMAIN svg : svg[j].tag = "path" /\ svg[j].title # None} }

GroupIds == SamplerIds \cup FeatureIds \cup TitleIds

\* id is prefix followed by the zero-padded number of a group, and the
\* sampler's output holds that group's display name under id
IdOfForm(id, prefix) ==
    /\ StartsWith(id, prefix)
    /\ LET digits == SubSeq(id, Len(prefix) + 1, Len(id))
       IN  /\ IsDigits(digits)
           /\ Len(digits) = CeilLog10(Len(group_list) + 1)
           /\ DecimalValue(digits) \in DOMAIN group_list
           /\ DictHas(path_points, id)
           /\ DictGet(path_points, id) = StrValue(group_list[DecimalValue(digits)])

\* C5 as stated: every identifier used for a group's SVG element (sampler
\* key, Feature key, id in the path's <title>) has the form
\* nerve_feature_group_NNN, and the sampler's output holds the group's
\* display name under it.
C5_IdsAreNerveFeatureGroupNNN ==
    xpc = "written" => \A id \in GroupIds : IdOfForm(id, S_nerve_feature_ \o S_group_)

\* C5, amended: every identifier used for a group's SVG element (sampler
\* key, Feature key, id in the path's <title>) has the form
\* nerve_feature_NNN, NNN the group's zero-padded number, and the sampler's
\* output holds the group's display name under it.
C5_IdsAreNerveFeatureNNN ==
    xpc = "written" => \A id \in GroupIds : IdOfForm(id, S_nerve_feature_)

\* C5's case: the export of two named groups is written, one of them with
\* a path, and the three kinds of identifier are all in use
C5_Witness ==
    /\ xpc = "written"
    /\ Cardinality(SamplerIds) = 2
    /\ FeatureIds = SamplerIds
    /\ TitleIds # {}

(***************************************************************************)
(* Claims about the children of the <svg> root.                            *)
(***************************************************************************)
\* the places in path_points of the groups: "ungrouped" and the labels
Groups == { i \in DOMAIN path_points : path_points[i][2].type = "list" }

Sampled == { i \in Groups : path_points[i][2].items # <<>> }

\* the <title> of the <path> of the group at place i of path_points
TitleOfGroup(i) ==
    LET key_ == path_points[i][1]
    IN  IF key_ = S_ungrouped THEN None
        ELSE Some(S_nerve_feature_ \o SubSeq(key_, Len(S_group_) + 1, Len(key_)))

PathsOfGroup(i) == { j \in DOMAIN svg : svg[j].tag = "path" /\ svg[j].title = TitleOfGroup(i) }

CirclesOfMarker(m) == { j \in DOMAIN svg : svg[j].tag = "circle" /\ svg[j].title = Some(markers[m][1]) }

Placed == { m \in DOMAIN markers : Len(markers[m][2]) >= 2 }

\* C10 as stated: the children of the root are one <path> for each group of
\* the sampler's output, sampled into or not, and one <circle> for each
\* marker; their number is the number of groups plus the number of markers.
C10_PathPerGroupCirclePerMarker ==
    xpc = "written" =>
        /\ \A i \in Groups : Cardinality(PathsOfGroup(i)) = 1
        /\ \A m \in DOMAIN markers : Cardinality(CirclesOfMarker(m)) = 1
        /\ Len(svg) = Cardinality(Groups) + Len(markers)

\* C10, amended: the children of the root are one <path> for each group of
\* the sampler's output that holds a sample, none for a group that holds
\* none, one <circle> for each marker whose coordinates have two components
\* or more and none for any other marker; there is no other child.
C10_PathPerSampledGroup ==
    xpc = "written" =>
        /\ \A i \in Groups :
              Cardinality(PathsOfGroup(i)) = IF i \in Sampled THEN 1 ELSE 0
        /\ \A m \in DOMAIN markers :
              Cardinality(CirclesOfMarker(m)) = IF m \in Placed THEN 1 ELSE 0
        /\ Len(svg) = Cardinality(Sampled) + Cardinality(Placed)

\* C10's case: a document with a <path> and a <circle> is written, from a
\* sampler's output with a group that holds no sample
C10_Witness ==
    /\ xpc = "written"
    /\ Sampled # {}
    /\ Groups # Sampled
    /\ Placed # {}
    /\ Len(svg) >= 2

(***************************************************************************)
(* Claims about the annotation file.                                       *)
(***************************************************************************)
\* the rows of the file that was set
Rows == annotations_csv_file[1]

\* an annotation file was set, its first row is the header and every other
\* row has two columns
Accepted ==
    /\ annotations_csv_file # None
    /\ Rows # <<>> => Rows[1] = HeaderRow
    /\ \A i \in DOMAIN Rows : i > 1 => Len(Rows[i]) = 2

\* the data rows that name the display name
RowsFor(name) == { i \in DOMAIN Rows : i > 1 /\ Rows[i][2] = name }

LastRowFor(name) == CHOOSE i \in RowsFor(name) : \A j \in RowsFor(name) : j <= i

\* C9 as stated: a centreline Feature has a models field exactly when an
\* annotation file was set, passes the header and row-shape checks and
\* some row maps the Feature's display name to a non-empty identifier; the
\* value is then that identifier; a rejected file gives no Feature a models.
C9_ModelsIffSomeRowMaps ==
    xpc = "written" =>
        \A c \in Centrelines :
            LET feature == features[c][2]
                mapping == IF Accepted
                           THEN { i \in RowsFor(feature.label) : Rows[i][1] # "" }
                           ELSE {}
            IN  /\ feature.models # None <=> mapping # {}
                /\ feature.models # None =>
                       \E i \in mapping : feature.models = Some(Rows[i][1])

\* C9, amended: a centreline Feature has a models field exactly when an
\* annotation file was set, passes the header and row-shape checks and the
\* last row that names the Feature's display name holds a non-empty
\* identifier; the value is then that identifier; a rejected file gives no
\* Feature a models field.
C9_ModelsIffLastRowMaps ==
    xpc = "written" =>
        \A c \in Centrelines :
            LET feature == features[c][2]
                named   == Accepted /\ RowsFor(feature.label) # {}
            IN  /\ feature.models # None <=>
                       (named /\ Rows[LastRowFor(feature.label)][1] # "")
                /\ feature.models # None =>
                       feature.models = Some(Rows[LastRowFor(feature.label)][1])
                /\ ~Accepted => feature.models = None

\* C9's case: the file is accepted, two of its rows name the display name
\* of a Feature with different identifiers, and the Feature has a models
C9_Witness ==
    /\ xpc = "written"
    /\ Accepted
    /\ \E c \in Centrelines :
           /\ features[c][2].models # None
           /\ \E i, j \in RowsFor(features[c][2].label) : Rows[i][1] # Rows[j][1]

(***************************************************************************)
(* Claims about the markers.                                               *)
(***************************************************************************)
MarkersRead == marker_region # None

\* the text of str after prefix
After(str, prefix) == SubSeq(str, Len(prefix) + 1, Len(str))

C12_WalkTerminates == Len(seg) <= Len(curve) + 1

\* the keys of the two ends of segment i of curve
StartKey(i) == _create_key(curve[i][1])
EndKey(i) == _create_key(curve[i][4])

\* segment j starts where segment i ends
Linked(i, j) == EndKey(i) = StartKey(j)

RECURSIVE Leads(_, _)
\* following the links from segment i for n steps is possible
Leads(i, n) ==
    IF n = 0 THEN TRUE
    ELSE \E j \in DOMAIN curve : Linked(i, j) /\ Leads(j, n - 1)

\* the start keys are distinct, the end keys are distinct, and the links
\* form no cycle
Chains ==
    /\ \A i, j \in DOMAIN curve : i # j => StartKey(i) # StartKey(j)
    /\ \A i, j \in DOMAIN curve : i # j => EndKey(i) # EndKey(j)
    /\ \A i \in DOMAIN curve : ~Leads(i, Len(curve))

\* the segments that start where no segment ends
Heads == { i \in DOMAIN curve : \A j \in DOMAIN curve : ~Linked(j, i) }

\* C13: with distinct start keys, distinct end keys and no cycle of links,
\* _connected_segments returns one path per chain; each path begins at
\* the head of its chain, lists the chain in link order, all of it, and
\* ends at a segment with no successor, whatever the order of the input.
C13_OnePathPerChain ==
    (pc = "return" /\ Chains) =>
        /\ Len(segments) = Cardinality(Heads)
        /\ \A i \in DOMAIN curve : Cardinality(PathsHolding(i)) = 1
        /\ \A p \in DOMAIN segments :
              LET path == segments[p]
              IN  /\ path # <<>>
                  /\ path[1] \in Heads
                  /\ \A k \in 1..(Len(path) - 1) : Linked(path[k], path[k + 1])
                  /\ \A j \in DOMAIN curve : ~Linked(path[Len(path)], j)
                  /\ \A a, b \in DOMAIN path : a # b => path[a] # path[b]

\* C13's case: a chain of three segments whose head is the last of the
\* input and whose tail is the first has been stitched
C13_Witness ==
    /\ pc = "return"
    /\ Chains
    /\ Len(curve) = 3
    /\ Linked(3, 2) /\ Linked(2, 1)
    /\ Len(segments) = 1

\* the segments whose start key an earlier segment of the input has too
Repeats == { i \in DOMAIN curve : \E j \in 1..(i - 1) : StartKey(j) = StartKey(i) }

\* the segment registered last for the start key of segment i
LastFor(i) ==
    CHOOSE j \in DOMAIN curve :
        /\ StartKey(j) = StartKey(i)
        /\ \A k \in DOMAIN curve : StartKey(k) = StartKey(i) => k <= j

Hashed == pc \notin {"idle", "begin_hash"}

RepeatDiags == SelectSeq(diag, LAMBDA d : d[1] = "problem repeated key!")

\* no segment ends at the key it starts at
ProperSegments == \A i \in DOMAIN curve : StartKey(i) # EndKey(i)

\* C14: when two or more segments have the same start key, stitching does
\* not fail and returns paths (its walk stays within the bound of a walk
\* that ends, see C12); a diagnostic is printed for each repeat of a key;
\* and in every path a segment that ends at a repeated key is followed by
\* the segment registered last for that key.  Stated here for the inputs
\* in which no segment ends at the key it starts at.
C14_RepeatedKeyLastWins ==
    (Repeats # {} /\ ProperSegments) =>
        /\ Len(seg) <= Len(curve) + 1
        /\ Hashed => Len(RepeatDiags) = Cardinality(Repeats)
        /\ pc = "return" =>
               \A p \in DOMAIN segments :
                   \A k \in DOMAIN segments[p] :
                       \A i \in Repeats :
                           EndKey(segments[p][k]) = StartKey(i) =>
                               /\ k < Len(segments[p])
                               /\ segments[p][k + 1] = LastFor(i)

(***************************************************************************)
(* Claims about a marker of fewer than two components.                     *)
(***************************************************************************)
\* the diagnostics printed for the marker at place m
DiagsOfMarker(m) ==
    { j \in DOMAIN printed :
          printed[j] = <<"Invalid marker for export:", markers[m]>> }

\* C15: a marker whose coordinates have fewer than two components is
\* dropped with a diagnostic and the export continues: it has neither a
\* <circle> in the document nor a Feature in properties.json, and every
\* other marker and every path is still emitted.
C15_ShortMarkerDropped ==
    xpc = "written" =>
        /\ \A m \in DOMAIN markers \ Placed :
              /\ DiagsOfMarker(m) # {}
              /\ CirclesOfMarker(m) = {}
              /\ ~DictHas(features, markers[m][1])
        /\ \A m \in Placed :
              /\ Cardinality(CirclesOfMarker(m)) = 1
              /\ DictHas(features, markers[m][1])
        /\ \A i \in Sampled : Cardinality(PathsOfGroup(i)) = 1

(***************************************************************************)
(* Claims about the files of export_webgl_from_scene.                      *)
(***************************************************************************)
\* the places in written_files of the resources written after the metadata
ResourceFiles == { f \in DOMAIN written_files : written_files[f][2] # 0 }

\* C16: whatever the number of resources and whichever of them have no
\* buffer, the file name that the written metadata holds for a resource
\* that is written is the name of the file that resource is written to.
C16_MetadataNamesTheFiles ==
    metadata # None =>
        \A f \in ResourceFiles : metadata[1][written_files[f][2]] = written_files[f][1]

====
